---- MODULE Spec2Model ----
(***************************************************************************)
(* Model of Stm_logger (src/main.py): the line classifier                  *)
(* is_csv_data_line, the record extractor clean_csv_line and the           *)
(* ingestion loop of main().                                               *)
(*                                                                         *)
(* Text is a sequence of code points (Python str), so that the regular     *)
(* expression [\x00-\x1f\x7f-\x9f], str.strip, str.lower, str.split and    *)
(* float() are modelled by what they do to the characters.                 *)
(***************************************************************************)
EXTENDS Integers, Sequences, FiniteSets, TLC

(***************************************************************************)
(* Bounds of the model.                                                    *)
(***************************************************************************)
MaxLead == 3
MaxRun == 26
MaxTail == 3
MaxLines == 3
MaxTime == 20
MaxSpin == 2
MaxCmds == 2

(***************************************************************************)
(* Characters and string primitives of Python used by the source.          *)
(***************************************************************************)
COMMA == 44

None == <<>>

Min(S) == CHOOSE x \in S : \A y \in S : x <= y

Max(S) == CHOOSE x \in S : \A y \in S : x >= y

\* The characters str.strip() and float() treat as white space (those below
\* U+0100): \t \n \v \f \r, FS GS RS US, space, NEL, NBSP.
WHITESPACE == {9, 10, 11, 12, 13, 28, 29, 30, 31, 32, 133, 160}

\* str.strip(): drop leading and trailing white space.
strip(s) ==
    LET keep == {i \in 1..Len(s) : s[i] \notin WHITESPACE}
    IN  IF keep = {} THEN <<>> ELSE SubSeq(s, Min(keep), Max(keep))

\* The character class [\x00-\x1f\x7f-\x9f] of the two re.sub calls.
IsControl(c) == (c >= 0 /\ c <= 31) \/ (c >= 127 /\ c <= 159)

\* re.sub(r'[\x00-\x1f\x7f-\x9f]', '', s): delete every control character.
re_sub(s) == SelectSeq(s, LAMBDA c : ~IsControl(c))

\* str.lower() on the ASCII letters.
lower(s) == [i \in 1..Len(s) |-> IF s[i] >= 65 /\ s[i] <= 90 THEN s[i] + 32 ELSE s[i]]

\* Python's  sub in s  on strings.
contains(sub, s) ==
    \E i \in 0..(Len(s) - Len(sub)) : SubSeq(s, i + 1, i + Len(sub)) = sub

\* str.split(','): the parts between the commas, empty parts kept.
RECURSIVE split(_)
split(s) ==
    LET commas == {i \in 1..Len(s) : s[i] = COMMA}
    IN  IF commas = {} THEN <<s>>
        ELSE LET i == Min(commas)
             IN  <<SubSeq(s, 1, i - 1)>> \o split(SubSeq(s, i + 1, Len(s)))

(***************************************************************************)
(* float(s): the grammar of Python's float() on ASCII text.                *)
(***************************************************************************)
IsDigit(c) == c >= 48 /\ c <= 57

\* digit (["_"] digit)*
IsDigitPart(d) ==
    /\ Len(d) >= 1
    /\ \A i \in 1..Len(d) :
          \/ IsDigit(d[i])
          \/ (d[i] = 95 /\ i > 1 /\ i < Len(d) /\ IsDigit(d[i - 1]) /\ IsDigit(d[i + 1]))

\* digitpart | digitpart "." [digitpart] | "." digitpart
IsMantissa(m) ==
    \E k \in 0..Len(m) :
        LET a == SubSeq(m, 1, k)
            rest == SubSeq(m, k + 1, Len(m))
        IN  \/ (rest = <<>> /\ IsDigitPart(a))
            \/ /\ Len(rest) >= 1
               /\ rest[1] = 46
               /\ LET b == Tail(rest)
                  IN  \/ (IsDigitPart(a) /\ (b = <<>> \/ IsDigitPart(b)))
                      \/ (a = <<>> /\ IsDigitPart(b))

Unsigned(t) == IF Len(t) > 0 /\ t[1] \in {43, 45} THEN Tail(t) ELSE t

\* mantissa [("e" | "E") ["+" | "-"] digitpart]
IsDecimal(u) ==
    \/ IsMantissa(u)
    \/ \E k \in 1..Len(u) :
          /\ u[k] \in {101, 69}
          /\ IsMantissa(SubSeq(u, 1, k - 1))
          /\ IsDigitPart(Unsigned(SubSeq(u, k + 1, Len(u))))

\* "inf", "infinity" and "nan" in any letter case.
IsSpecialFloat(u) ==
    lower(u) \in {<<105, 110, 102>>,
                  <<105, 110, 102, 105, 110, 105, 116, 121>>,
                  <<110, 97, 110>>}

\* float(s) does not raise ValueError.
FloatParses(s) ==
    LET u == Unsigned(strip(s))
    IN  IsSpecialFloat(u) \/ IsDecimal(u)

\* is_numeric(s): True when float(s) succeeds.
is_numeric(s) == FloatParses(s)

(***************************************************************************)
(* The program's constants.                                                *)
(***************************************************************************)
\* len(EXPECTED_HEADER)
N == 21

\* 'AccX,AccY,AccZ'
MARKER == <<65, 99, 99, 88, 44, 65, 99, 99, 89, 44, 65, 99, 99, 90>>

\* The keyword list of is_csv_data_line.
KEYWORDS ==
    { <<104, 101, 108, 108, 111>>,                         \* hello
      <<101, 114, 114, 111, 114>>,                         \* error
      <<115, 121, 115, 116, 101, 109>>,                    \* system
      <<98, 97, 117, 100>>,                                \* baud
      <<102, 105, 110, 100>>,                              \* find
      <<115, 101, 110, 115, 111, 114>>,                    \* sensor
      <<99, 111, 110, 110, 101, 99, 116, 105, 111, 110>>,  \* connection
      <<98, 111, 111, 116>>,                               \* boot
      <<114, 117, 100, 100, 101, 114>>,                    \* rudder
      <<112, 114, 111, 112, 101, 108, 108, 101, 114>>,     \* propeller
      <<122, 101, 114, 111>>,                              \* zero
      <<117, 110, 107, 110, 111, 119, 110>>,               \* unknown
      <<99, 111, 109, 109, 97, 110, 100>> }                \* command

MIN_PARTS == 15

MAX_PARTS == 25

SUMMARY_INTERVAL == 15

(***************************************************************************)
(* len(parts) * 0.8 in IEEE-754 double arithmetic.  The double 0.8 is      *)
(* M / 2^52 with M = POINT8_HI * 2^26 + POINT8_LO; the product p * M is    *)
(* kept in two 26-bit limbs and rounded to 53 significant bits, ties to    *)
(* even.                                                                   *)
(***************************************************************************)
LIMB == 2^26

POINT8_HI == 53687091

POINT8_LO == 13421773

BitLen(h) == IF h >= 2^30 THEN 31 ELSE Min({b \in 0..30 : h < 2^b})

\* The rounded product p * 0.8 as <<hi, lo>>, value (hi * 2^26 + lo) / 2^52.
MulPoint8(p) ==
    LET plo == p * POINT8_LO
        L == plo % LIMB
        H == p * POINT8_HI + (plo \div LIMB)
        bits == 26 + BitLen(H)
        s == IF bits > 53 THEN bits - 53 ELSE 0
        r == L % (2^s)
        up == s > 0 /\ (r > 2^(s - 1) \/ (r = 2^(s - 1) /\ (L \div 2^s) % 2 = 1))
        L2 == L - r + (IF up THEN 2^s ELSE 0)
    IN  IF L2 >= LIMB THEN <<H + 1, L2 - LIMB>> ELSE <<H, L2>>

\* Variant: numeric_count <= len(parts) * 0.8.
BelowThreshold_le(numeric_count, nparts) ==
    LET prod == MulPoint8(nparts)
    IN  \/ numeric_count * LIMB < prod[1]
        \/ numeric_count * LIMB = prod[1]

\* numeric_count < len(parts) * 0.8, the integer converted to double exactly.
BelowThreshold(numeric_count, nparts) ==
    LET prod == MulPoint8(nparts)
    IN  \/ numeric_count * LIMB < prod[1]
        \/ (numeric_count * LIMB = prod[1] /\ prod[2] > 0)

(***************************************************************************)
(* is_csv_data_line (src/main.py:30-55).                                   *)
(***************************************************************************)
\* cleaned_line of is_csv_data_line, cleaned of clean_csv_line.
cleaned_line(line) == re_sub(strip(line))

\* Variant: the keywords are looked up in cleaned_line, not cleaned_line.lower().
HasNoiseKeyword_nolower(cl) == \E keyword \in KEYWORDS : contains(keyword, cl)

\* any(keyword in cleaned_line.lower() for keyword in [...])
HasNoiseKeyword(cl) == \E keyword \in KEYWORDS : contains(keyword, lower(cl))

\* Variant: the limits 15 and 25 are themselves rejected.
BadPartCount_exclusive(nparts) == nparts <= MIN_PARTS \/ nparts >= MAX_PARTS

\* len(parts) < 15 or len(parts) > 25
BadPartCount(nparts) == nparts < MIN_PARTS \/ nparts > MAX_PARTS

\* sum(1 for part in parts if is_numeric(part.strip()))
numeric_count(parts) == Cardinality({i \in 1..Len(parts) : is_numeric(strip(parts[i]))})

is_csv_data_line(line) ==
    LET cl == cleaned_line(line)
        parts == split(cl)
    IN  IF HasNoiseKeyword(cl) THEN FALSE
        ELSE IF BadPartCount(Len(parts)) THEN FALSE
        ELSE IF BelowThreshold(numeric_count(parts), Len(parts)) THEN FALSE
        ELSE TRUE

(***************************************************************************)
(* clean_csv_line (src/main.py:57-82).                                     *)
(***************************************************************************)
\* parts = [part.strip() for part in cleaned.split(',')]
stripped_parts(line) ==
    LET raw == split(cleaned_line(line))
    IN  [i \in 1..Len(raw) |-> strip(raw[i])]

\* Variant: the inner loop appends every part without testing is_numeric.
numeric_parts_untested(cand) == cand

\* The inner loop: the parts of cand up to the first one that is not numeric.
numeric_parts(cand) ==
    LET bad == {j \in 1..Len(cand) : ~is_numeric(cand[j])}
    IN  IF bad = {} THEN cand ELSE SubSeq(cand, 1, Min(bad) - 1)

\* One iteration of the outer loop at offset i (0-based): the run collected
\* from candidate_parts[:N], or None when parts[i:] is shorter than N.
RunAt(parts, i) ==
    LET candidate_parts == SubSeq(parts, i + 1, Len(parts))
    IN  IF Len(candidate_parts) >= N
        THEN numeric_parts(SubSeq(candidate_parts, 1, N))
        ELSE None

\* Variant: only the start of the line is tried.
Offsets_first(parts) == IF Len(parts) > 0 THEN {0} ELSE {}

\* The offsets the outer loop visits: range(len(parts)).
Offsets(parts) == 0..(Len(parts) - 1)

\* Variant: the scan does not stop at the first full run; the last one wins.
FirstHit_last(hits) == Max(hits)

\* 'return numeric_parts[:21]' inside the for loop: the lowest offset whose
\* run is full ends the scan.   (lines 68, 79-80)
FirstHit(hits) == Min(hits)

clean_csv_line(line) ==
    LET parts == stripped_parts(line)
        hits == {i \in Offsets(parts) : Len(RunAt(parts, i)) >= N}
    IN  IF hits = {} THEN None
        ELSE SubSeq(RunAt(parts, FirstHit(hits)), 1, N)

(***************************************************************************)
(* Input lines.  A line is  lead^i , run , tail^k  joined by commas: i     *)
(* copies of a leading token, a run of j distinct numeric tokens written   *)
(* in one of three styles, and k copies of a trailing token.               *)
(***************************************************************************)
Digits(n) == IF n < 10 THEN <<48 + n>> ELSE <<48 + (n \div 10), 48 + (n % 10)>>

Styles == {"plain", "signed", "padded"}

\* "7", "-7.5", " 7e1 "
NumToken(style, n) ==
    CASE style = "plain" -> Digits(n)
      [] style = "signed" -> <<45>> \o Digits(n) \o <<46, 53>>
      [] style = "padded" -> <<32>> \o Digits(n) \o <<101, 49, 32>>

\* "x", "", "ERROR", "\x017"
LeadTokens == { <<120>>, <<>>, <<69, 82, 82, 79, 82>>, <<1, 55>> }

\* "x", "99", "Boot"
TailTokens == { <<120>>, <<57, 57>>, <<66, 111, 111, 116>> }

Rep(tok, n) == [i \in 1..n |-> tok]

RECURSIVE Join(_)
Join(toks) ==
    IF Len(toks) = 0 THEN <<>>
    ELSE IF Len(toks) = 1 THEN toks[1]
    ELSE toks[1] \o <<COMMA>> \o Join(Tail(toks))

MakeLine(lead, i, style, j, tail, k) ==
    Join(Rep(lead, i) \o [n \in 1..j |-> NumToken(style, n)] \o Rep(tail, k))

\* Two numeric runs of a and b tokens with one token 'x' between them.
TwoRunLine(style, a, b) ==
    Join([n \in 1..a |-> NumToken(style, n)] \o << <<120>> >>
            \o [n \in 1..b |-> NumToken(style, a + n)])

TwoRunLines ==
    { TwoRunLine(style, a, b) : style \in Styles, a \in {N - 1, N}, b \in {N, N + 1} }

FnLines ==
    { MakeLine(lead, i, style, j, tail, k) :
        lead \in LeadTokens, i \in 0..MaxLead, style \in Styles,
        j \in 0..MaxRun, tail \in TailTokens, k \in 0..MaxTail }
    \cup TwoRunLines

(***************************************************************************)
(* The ingestion loop of main() (src/main.py:112-184).                     *)
(***************************************************************************)
EXPECTED_HEADER ==
    << <<65, 99, 99, 88>>,                     \* AccX
       <<65, 99, 99, 89>>,                     \* AccY
       <<65, 99, 99, 90>>,                     \* AccZ
       <<71, 121, 114, 111, 88>>,              \* GyroX
       <<71, 121, 114, 111, 89>>,              \* GyroY
       <<71, 121, 114, 111, 90>>,              \* GyroZ
       <<82, 111, 108, 108>>,                  \* Roll
       <<80, 105, 116, 99, 104>>,              \* Pitch
       <<89, 97, 119, 73, 77, 85>>,            \* YawIMU
       <<77, 97, 103, 88>>,                    \* MagX
       <<77, 97, 103, 89>>,                    \* MagY
       <<77, 97, 103, 90>>,                    \* MagZ
       <<76, 97, 116>>,                        \* Lat
       <<76, 111, 110>>,                       \* Lon
       <<65, 108, 116>>,                       \* Alt
       <<83, 112, 101, 101, 100>>,             \* Speed
       <<67, 111, 117, 114, 115, 101>>,        \* Course
       <<83, 97, 116, 115>>,                   \* Sats
       <<80, 68, 79, 80>>,                     \* PDOP
       <<72, 68, 79, 80>>,                     \* HDOP
       <<86, 68, 79, 80>> >>                   \* VDOP

\* 'Timestamp'
TIMESTAMP == <<84, 105, 109, 101, 115, 116, 97, 109, 112>>

\* ['Timestamp'] + EXPECTED_HEADER
HeaderRow == <<TIMESTAMP>> \o EXPECTED_HEADER

\* timestamp.isoformat(): the letter T and the clock reading in decimal.
isoformat(t) == <<84>> \o Digits(t)

\* [timestamp.isoformat()] + cleaned_data
DataRow(t, cleaned) == <<isoformat(t)>> \o cleaned

\* The time between two readings of the clock in the model.
TICK == 5

\* The texts the device sends, each ended by "\r\n" on the wire.
Text_header == Join(EXPECTED_HEADER)

\* "Booting up..."
Text_boot == <<66, 111, 111, 116, 105, 110, 103, 32, 117, 112, 46, 46, 46>>

\* "garbage,text,line"
Text_garbage == <<103, 97, 114, 98, 97, 103, 101, 44, 116, 101, 120, 116, 44, 108, 105, 110, 101>>

\* "x,1,...,21,99": one stray token, 21 values, one extra value
Text_data == MakeLine(<<120>>, 1, "plain", N, <<57, 57>>, 1)

\* "1,...,16": passes is_csv_data_line, holds no run of 21 values
Text_short == MakeLine(<<120>>, 0, "plain", 16, <<120>>, 0)

\* "1,...,20,ERROR": numeric-shaped with a keyword
Text_keyword == MakeLine(<<120>>, 0, "plain", 20, <<69, 82, 82, 79, 82>>, 1)

\* "log AccX,AccY,AccZ": the marker inside another line
Text_echo == <<108, 111, 103, 32>> \o MARKER

\* "AccX,\x01AccY,AccZ": the marker with a stray control character inside
Text_header_ctl == <<65, 99, 99, 88, 44, 1, 65, 99, 99, 89, 44, 65, 99, 99, 90>>

RawLines ==
    { txt \o <<13, 10>> :
        txt \in {Text_header, Text_echo, Text_boot, Text_garbage, Text_data,
                 Text_short, Text_keyword, Text_header_ctl, <<>>} }

\* What the operator types at the "Enter command: " prompt:
\* " QUIT ", "f", "" and "  ".
OperatorInputs ==
    { <<32, 81, 85, 73, 84, 32>>, <<102>>, <<>>, <<32, 32>> }

VARIABLES
    pc,                 \* position of main(): poll, write, flush, count, finally, exit_with, done
    header_written,     \* main's local header_written
    file,               \* the rows handed to writer.writerow, in order
    flushed,            \* how many rows of file have reached the disk
    csv_message_count,  \* the global csv_message_count
    last_summary_time,  \* the global last_summary_time
    now,                \* the clock read by time.time() and datetime.now()
    cleaned_data,       \* main's local cleaned_data while a row is in flight
    summaries,          \* the "[CSV] Received ..." lines printed so far
    final_count,        \* the count printed by the KeyboardInterrupt handler, -1 before
    interrupt_pc,       \* where the loop was when it was left, "none" before
    ser_open,           \* the serial port is open
    nread,              \* lines read from the port so far
    markers_seen,       \* how many of them held the marker text
    last_line,          \* main's local line: the last line read, stripped
    spins,              \* empty polls made in a row with no sleep or read between
    cmd_pc,             \* position of command_sender: input, done
    stdin_open,         \* the operator's input stream is open
    ncmd,               \* how many times input() has returned or raised
    last_input,         \* what the last input() gave: none, command, empty, quit, eof
    last_write,         \* the last ser.write of the relay: none, ok, failed, closed
    relay_msg,          \* the last line the relay printed: none, sent, error, exit
    quit_nread,         \* nread when the relay ended, -1 before
    fn_stage,           \* single-line runs: off, read, classified, done
    fn_line,            \* single-line runs: the line
    fn_is_data,         \* single-line runs: result of is_csv_data_line
    fn_cleaned,         \* single-line runs: result of clean_csv_line
    fn_row              \* single-line runs: the row main() writes for the line, or None

vars == <<pc, header_written, file, flushed, csv_message_count, last_summary_time,
          now, cleaned_data, summaries, final_count, interrupt_pc, ser_open,
          nread, markers_seen, last_line, spins, cmd_pc, stdin_open, ncmd, last_input,
          last_write, relay_msg, quit_nread,
          fn_stage, fn_line, fn_is_data, fn_cleaned, fn_row>>

fnVars == <<fn_stage, fn_line, fn_is_data, fn_cleaned, fn_row>>

\* The variables of command_sender.
relayVars == <<cmd_pc, stdin_open, ncmd, last_input, last_write, relay_msg, quit_nread>>

\* The variables owned by the ingestion loop of main().
ingestVars == <<pc, header_written, file, flushed, csv_message_count, last_summary_time,
                cleaned_data, summaries, final_count, interrupt_pc, ser_open,
                nread, markers_seen, last_line, spins>>

sessionVars == <<pc, header_written, file, flushed, csv_message_count, last_summary_time,
                 now, cleaned_data, summaries, final_count, interrupt_pc, ser_open,
                 nread, markers_seen, last_line, spins, cmd_pc, stdin_open, ncmd,
                 last_input, last_write, relay_msg, quit_nread>>

\* The state of main() when the loop is entered (line 135).
SessionInit ==
    /\ header_written = FALSE
    /\ file = <<>>
    /\ flushed = 0
    /\ csv_message_count = 0
    /\ last_summary_time = 0
    /\ now = 0
    /\ cleaned_data = None
    /\ summaries = <<>>
    /\ final_count = -1
    /\ interrupt_pc = "none"
    /\ ser_open = TRUE
    /\ nread = 0
    /\ markers_seen = 0
    /\ last_line = <<>>
    /\ spins = 0
    /\ cmd_pc = "input"
    /\ stdin_open = TRUE
    /\ ncmd = 0
    /\ last_input = "none"
    /\ last_write = "none"
    /\ relay_msg = "none"
    /\ quit_nread = -1

Init ==
    /\ SessionInit
    /\ pc = "poll"
    /\ fn_stage = "off"
    /\ fn_line = <<>>
    /\ fn_is_data = FALSE
    /\ fn_cleaned = None
    /\ fn_row = None

\* while True:   (line 136)
LoopCondition == TRUE

\* The clock advances between two iterations of the loop; the time one
\* iteration takes is not modelled.
Tick ==
    /\ pc = "poll"
    /\ now + TICK <= MaxTime
    /\ now' = now + TICK
    /\ UNCHANGED <<pc, header_written, file, flushed, csv_message_count,
                   last_summary_time, cleaned_data, summaries, final_count,
                   interrupt_pc, ser_open, nread, markers_seen,
                   last_line, spins>>
    /\ UNCHANGED relayVars
    /\ UNCHANGED fnVars

\* Variant: the test of header_written is missing.
WriteHeaderCond_always(line, hw) == contains(MARKER, line)

\* 'AccX,AccY,AccZ' in line and not header_written   (line 145)
WriteHeaderCond(line, hw) == contains(MARKER, line) /\ ~hw

\* 'AccX,AccY,AccZ' in line and header_written       (line 152)
SkipHeaderCond(line, hw) == contains(MARKER, line) /\ hw

\* Variant: when no run of 21 values is found the cleaned parts are used.
ExtractRecord_partial(line) ==
    IF is_csv_data_line(line)
    THEN LET cleaned == clean_csv_line(line)
         IN  IF cleaned = None THEN stripped_parts(line) ELSE cleaned
    ELSE None

\* Lines 156-158: the record of a line that is neither empty nor a header,
\* None when the line is shown on the console instead.
ExtractRecord(line) ==
    IF is_csv_data_line(line) THEN clean_csv_line(line) ELSE None

\* Lines 137-158 and 171-175: one line is read and classified.  A header row
\* is written here; a record to write is left in cleaned_data.
ReadLine(raw) ==
    /\ pc = "poll"
    /\ LoopCondition
    /\ nread < MaxLines
    /\ nread' = nread + 1
    /\ markers_seen' = markers_seen + (IF contains(MARKER, raw) THEN 1 ELSE 0)
    /\ last_line' = strip(raw)
    /\ spins' = 0
    /\ LET ln == strip(raw)
       IN  IF ln = <<>>
           THEN UNCHANGED <<pc, header_written, file, cleaned_data>>
           ELSE IF WriteHeaderCond(ln, header_written)
           THEN /\ file' = Append(file, HeaderRow)
                /\ header_written' = TRUE
                /\ UNCHANGED <<pc, cleaned_data>>
           ELSE IF SkipHeaderCond(ln, header_written)
           THEN UNCHANGED <<pc, header_written, file, cleaned_data>>
           ELSE LET rec == ExtractRecord(ln)
                IN  IF Len(rec) > 0
                    THEN /\ cleaned_data' = rec
                         /\ pc' = "write"
                         /\ UNCHANGED <<header_written, file>>
                    ELSE UNCHANGED <<pc, header_written, file, cleaned_data>>
    /\ UNCHANGED <<flushed, csv_message_count, last_summary_time, now, summaries,
                   final_count, interrupt_pc, ser_open>>
    /\ UNCHANGED relayVars
    /\ UNCHANGED fnVars

\* Lines 159-160: writer.writerow([timestamp.isoformat()] + cleaned_data)
WriteRow ==
    /\ pc = "write"
    /\ file' = Append(file, DataRow(now, cleaned_data))
    /\ pc' = "flush"
    /\ UNCHANGED <<header_written, flushed, csv_message_count, last_summary_time,
                   now, cleaned_data, summaries, final_count, interrupt_pc,
                   ser_open, nread, markers_seen,
                   last_line, spins>>
    /\ UNCHANGED relayVars
    /\ UNCHANGED fnVars

\* Line 161: file.flush()
FlushRow ==
    /\ pc = "flush"
    /\ flushed' = Len(file)
    /\ pc' = "count"
    /\ UNCHANGED <<header_written, file, csv_message_count, last_summary_time,
                   now, cleaned_data, summaries, final_count, interrupt_pc,
                   ser_open, nread, markers_seen,
                   last_line, spins>>
    /\ UNCHANGED relayVars
    /\ UNCHANGED fnVars

\* current_time - last_summary_time >= 15   (line 167)
SummaryDue(current_time, last) == current_time - last >= SUMMARY_INTERVAL

\* Lines 163-170: count the record and print the summary when it is due.
CountSummary ==
    /\ pc = "count"
    /\ IF SummaryDue(now, last_summary_time)
       THEN /\ summaries' = Append(summaries,
                   [time |-> now, count |-> csv_message_count + 1, rows |-> Len(file)])
            /\ csv_message_count' = 0
            /\ last_summary_time' = now
       ELSE /\ csv_message_count' = csv_message_count + 1
            /\ UNCHANGED <<summaries, last_summary_time>>
    /\ cleaned_data' = None
    /\ pc' = "poll"
    /\ UNCHANGED <<header_written, file, flushed, now, final_count, interrupt_pc,
                   ser_open, nread, markers_seen,
                   last_line, spins>>
    /\ UNCHANGED relayVars
    /\ UNCHANGED fnVars

\* Lines 177-179: Ctrl-C anywhere in the loop; the handler prints the count.
KeyboardInterrupt ==
    /\ pc \in {"poll", "write", "flush", "count"}
    /\ final_count' = csv_message_count
    /\ interrupt_pc' = pc
    /\ pc' = "finally"
    /\ UNCHANGED <<header_written, file, flushed, csv_message_count,
                   last_summary_time, now, cleaned_data, summaries, ser_open,
                   nread, markers_seen,
                   last_line, spins>>
    /\ UNCHANGED relayVars
    /\ UNCHANGED fnVars

\* Lines 182-184: ser.close()
Finally ==
    /\ pc = "finally"
    /\ ser_open' = FALSE
    /\ pc' = "exit_with"
    /\ UNCHANGED <<header_written, file, flushed, csv_message_count,
                   last_summary_time, now, cleaned_data, summaries, final_count,
                   interrupt_pc, nread, markers_seen,
                   last_line, spins>>
    /\ UNCHANGED relayVars
    /\ UNCHANGED fnVars

\* Line 132: leaving the with block closes the file, which flushes it.
ExitWith ==
    /\ pc = "exit_with"
    /\ flushed' = Len(file)
    /\ pc' = "done"
    /\ UNCHANGED <<header_written, file, csv_message_count, last_summary_time,
                   now, cleaned_data, summaries, final_count, interrupt_pc,
                   ser_open, nread, markers_seen,
                   last_line, spins>>
    /\ UNCHANGED relayVars
    /\ UNCHANGED fnVars

\* Lines 136-137: ser.in_waiting is 0; the if has no else branch, so the
\* loop goes straight back to the test of ser.in_waiting.
PollEmpty ==
    /\ pc = "poll"
    /\ LoopCondition
    /\ spins < MaxSpin
    /\ spins' = spins + 1
    /\ UNCHANGED <<pc, header_written, file, flushed, csv_message_count,
                   last_summary_time, now, cleaned_data, summaries, final_count,
                   interrupt_pc, ser_open, nread, markers_seen, last_line>>
    /\ UNCHANGED relayVars
    /\ UNCHANGED fnVars

\* Lines 180-181: ser.in_waiting, ser.readline, writer.writerow or
\* file.flush raises; the handler prints the error.
LoopException ==
    /\ pc \in {"poll", "write", "flush"}
    /\ interrupt_pc' = pc
    /\ pc' = "finally"
    /\ UNCHANGED <<header_written, file, flushed, csv_message_count,
                   last_summary_time, now, cleaned_data, summaries, final_count,
                   ser_open, nread, markers_seen, last_line, spins>>
    /\ UNCHANGED relayVars
    /\ UNCHANGED fnVars

(***************************************************************************)
(* command_sender (src/main.py:84-110), a daemon thread: it runs until it  *)
(* leaves its loop or main() returns.                                      *)
(***************************************************************************)
\* 'quit'
QUIT == <<113, 117, 105, 116>>

\* command.lower() == 'quit'   (line 99)
IsQuit(command) == lower(command) = QUIT

\* Variant: the handler of line 109 leaves the loop.
PcAfterError_break == "done"

\* Lines 109-110: the handler prints and the while loop goes on.
PcAfterError == "input"

\* Variant: the exit directive also closes the port.
RelayQuit_close(text) ==
    /\ cmd_pc = "input"
    /\ pc # "done"
    /\ stdin_open
    /\ ncmd < MaxCmds
    /\ IsQuit(strip(text))
    /\ ncmd' = ncmd + 1
    /\ last_input' = "quit"
    /\ last_write' = "none"
    /\ relay_msg' = "exit"
    /\ quit_nread' = nread
    /\ cmd_pc' = "done"
    /\ ser_open' = FALSE
    /\ UNCHANGED <<pc, header_written, file, flushed, csv_message_count,
                   last_summary_time, cleaned_data, summaries, final_count,
                   interrupt_pc, nread, markers_seen, last_line, spins>>
    /\ UNCHANGED stdin_open
    /\ UNCHANGED now
    /\ UNCHANGED fnVars

\* Lines 98-101: the operator enters the exit directive.
RelayQuit(text) ==
    /\ cmd_pc = "input"
    /\ pc # "done"
    /\ stdin_open
    /\ ncmd < MaxCmds
    /\ IsQuit(strip(text))
    /\ ncmd' = ncmd + 1
    /\ last_input' = "quit"
    /\ last_write' = "none"
    /\ relay_msg' = "exit"
    /\ quit_nread' = nread
    /\ cmd_pc' = "done"
    /\ UNCHANGED stdin_open
    /\ UNCHANGED ingestVars
    /\ UNCHANGED now
    /\ UNCHANGED fnVars

\* Lines 102-105 and 109-110: a command is written to the port.  The write
\* raises when the port is closed and may raise when it is open.
RelaySend(text, outcome) ==
    /\ cmd_pc = "input"
    /\ pc # "done"
    /\ stdin_open
    /\ ncmd < MaxCmds
    /\ ~IsQuit(strip(text))
    /\ Len(strip(text)) > 0
    /\ outcome \in (IF ser_open THEN {"ok", "failed"} ELSE {"closed"})
    /\ ncmd' = ncmd + 1
    /\ last_input' = "command"
    /\ last_write' = outcome
    /\ IF outcome = "ok"
       THEN relay_msg' = "sent" /\ cmd_pc' = "input"
       ELSE relay_msg' = "error" /\ cmd_pc' = PcAfterError
    /\ UNCHANGED <<stdin_open, quit_nread>>
    /\ UNCHANGED ingestVars
    /\ UNCHANGED now
    /\ UNCHANGED fnVars

\* Line 102: the stripped input is empty; nothing is sent or printed.
RelayEmpty(text) ==
    /\ cmd_pc = "input"
    /\ pc # "done"
    /\ stdin_open
    /\ ncmd < MaxCmds
    /\ Len(strip(text)) = 0
    /\ ncmd' = ncmd + 1
    /\ last_input' = "empty"
    /\ last_write' = "none"
    /\ UNCHANGED <<cmd_pc, stdin_open, relay_msg, quit_nread>>
    /\ UNCHANGED ingestVars
    /\ UNCHANGED now
    /\ UNCHANGED fnVars

\* The operator closes the input stream.
CloseStdin ==
    /\ cmd_pc = "input"
    /\ pc # "done"
    /\ stdin_open
    /\ stdin_open' = FALSE
    /\ UNCHANGED <<cmd_pc, ncmd, last_input, last_write, relay_msg, quit_nread>>
    /\ UNCHANGED ingestVars
    /\ UNCHANGED now
    /\ UNCHANGED fnVars

\* Lines 98 and 109-110: input() raises EOFError on the closed stream; it is
\* an Exception, so the handler of line 109 prints it and the loop goes on.
RelayEOF ==
    /\ cmd_pc = "input"
    /\ pc # "done"
    /\ ~stdin_open
    /\ ncmd < MaxCmds
    /\ ncmd' = ncmd + 1
    /\ last_input' = "eof"
    /\ last_write' = "none"
    /\ relay_msg' = "error"
    /\ cmd_pc' = PcAfterError
    /\ UNCHANGED <<stdin_open, quit_nread>>
    /\ UNCHANGED ingestVars
    /\ UNCHANGED now
    /\ UNCHANGED fnVars

\* The ingestion loop alone.
Next ==
    \/ Tick
    \/ PollEmpty
    \/ \E raw \in RawLines : ReadLine(raw)
    \/ WriteRow
    \/ FlushRow
    \/ CountSummary
    \/ KeyboardInterrupt
    \/ LoopException
    \/ Finally
    \/ ExitWith

Spec == Init /\ [][Next]_vars

\* The lines the device sends while the relay thread is watched.
RelayRawLines == { txt \o <<13, 10>> : txt \in {Text_header, Text_garbage, Text_data} }

\* The ingestion loop and the relay thread side by side.
NextRelay ==
    \/ \E raw \in RelayRawLines : ReadLine(raw)
    \/ WriteRow
    \/ FlushRow
    \/ CountSummary
    \/ KeyboardInterrupt
    \/ Finally
    \/ ExitWith
    \/ \E text \in OperatorInputs : RelayQuit(text)
    \/ \E text \in OperatorInputs : \E outcome \in {"ok", "failed", "closed"} :
          RelaySend(text, outcome)
    \/ \E text \in OperatorInputs : RelayEmpty(text)
    \/ CloseStdin
    \/ RelayEOF

SpecRelay == Init /\ [][NextRelay]_vars

(***************************************************************************)
(* Single-line runs: one line is put through is_csv_data_line and          *)
(* clean_csv_line, and through lines 156-160 of main().                    *)
(***************************************************************************)
FnInit ==
    /\ SessionInit
    /\ pc = "fn"
    /\ fn_stage = "read"
    /\ fn_line \in FnLines
    /\ fn_is_data = FALSE
    /\ fn_cleaned = None
    /\ fn_row = None

FnClassify ==
    /\ fn_stage = "read"
    /\ fn_is_data' = is_csv_data_line(fn_line)
    /\ fn_stage' = "classified"
    /\ UNCHANGED <<fn_line, fn_cleaned, fn_row>>
    /\ UNCHANGED sessionVars

FnExtract ==
    /\ fn_stage = "classified"
    /\ fn_cleaned' = clean_csv_line(fn_line)
    /\ fn_row' = IF fn_is_data /\ Len(fn_cleaned') > 0
                 THEN DataRow(now, fn_cleaned')
                 ELSE None
    /\ fn_stage' = "done"
    /\ UNCHANGED <<fn_line, fn_is_data>>
    /\ UNCHANGED sessionVars

FnNext == FnClassify \/ FnExtract

SpecFn == FnInit /\ [][FnNext]_vars

(***************************************************************************)
(* Vocabulary of the properties.                                           *)
(***************************************************************************)
IsHeaderRow(row) == row = HeaderRow

IsDataRow(row) == row # HeaderRow

HeaderRows == {i \in 1..Len(file) : IsHeaderRow(file[i])}

DataRows == {i \in 1..Len(file) : IsDataRow(file[i])}

\* The clock reading a data row carries in its first field.
RowTime(row) == CHOOSE t \in 0..99 : isoformat(t) = row[1]

FoldCase(c) == IF c >= 65 /\ c <= 90 THEN c + 32 ELSE c

\* Some keyword occurs in txt as a substring, letter case ignored.
ContainsKeywordCI(txt) ==
    \E kw \in KEYWORDS : \E i \in 0..(Len(txt) - Len(kw)) :
        \A j \in 1..Len(kw) : FoldCase(txt[i + j]) = kw[j]

\* The parts of a line as the classifier and the extractor see them:
\* control characters removed, split at the commas, each part trimmed.
PartsOf(line) ==
    LET raw == split(re_sub(strip(line)))
    IN  [i \in 1..Len(raw) |-> strip(raw[i])]

\* The positions of the parts that float() accepts.
NumericIn(parts) == {i \in 1..Len(parts) : FloatParses(parts[i])}

\* The line has no keyword once its control characters are removed.
KeywordFree(line) == ~ContainsKeywordCI(re_sub(strip(line)))

(***************************************************************************)
(* C1: whenever one or more of the lines read so far held the marker       *)
(* 'AccX,AccY,AccZ', the output holds exactly one header row, wherever     *)
(* those lines stood and however many there were; with no marker line it   *)
(* holds none.                                                             *)
(***************************************************************************)
C1_OneHeaderRow ==
    /\ markers_seen >= 1 => Cardinality(HeaderRows) = 1
    /\ markers_seen = 0 => Cardinality(HeaderRows) = 0

\* Two marker lines were read and one header row stands beside a data row.
C1_Witness ==
    /\ markers_seen >= 2
    /\ Cardinality(HeaderRows) = 1
    /\ Len(file) >= 2

(***************************************************************************)
(* C2: if the output holds a header row, it is the first row: no data row  *)
(* stands before the header row.                                           *)
(***************************************************************************)
C2_HeaderFirst == \A i \in HeaderRows : i = 1

(***************************************************************************)
(* C3: a record returned by clean_csv_line has exactly N = 21 tokens, all  *)
(* of them parseable by float(); the row written for the line is one       *)
(* timestamp followed by 21 such fields.                                   *)
(***************************************************************************)
C3_RecordShape ==
    fn_stage = "done" =>
        /\ fn_cleaned # None =>
              /\ Len(fn_cleaned) = N
              /\ \A i \in 1..Len(fn_cleaned) : FloatParses(fn_cleaned[i])
        /\ fn_row # None =>
              /\ Len(fn_row) = N + 1
              /\ fn_row[1] = isoformat(now)
              /\ \A i \in 2..Len(fn_row) : FloatParses(fn_row[i])

\* A row was produced from a line that holds more than 21 parts, one of
\* them not numeric.
C3_Witness ==
    /\ fn_stage = "done"
    /\ fn_row # None
    /\ LET parts == PartsOf(fn_line)
       IN  Len(parts) > N /\ Cardinality(NumericIn(parts)) < Len(parts)

(***************************************************************************)
(* C4: when the parts of a line are k tokens that are not numeric followed *)
(* by exactly N = 21 numeric tokens, clean_csv_line returns those 21       *)
(* tokens in order, for every k >= 0.                                      *)
(***************************************************************************)
\* parts is k tokens that are not numeric followed by N numeric ones.
Realignable(parts, k) ==
    /\ k >= 0
    /\ Len(parts) = k + N
    /\ NumericIn(parts) = (k + 1)..(k + N)

C4_Realignment ==
    fn_stage = "done" =>
        LET parts == PartsOf(fn_line)
            k == Len(parts) - N
        IN  Realignable(parts, k) => fn_cleaned = SubSeq(parts, k + 1, k + N)

\* Three leading tokens were skipped.
C4_Witness ==
    /\ fn_stage = "done"
    /\ LET parts == PartsOf(fn_line)
           k == Len(parts) - N
       IN  /\ k >= 3
           /\ Realignable(parts, k)
           /\ fn_cleaned = SubSeq(parts, k + 1, k + N)

(***************************************************************************)
(* C5: a line that holds a denylisted keyword as a substring, in any       *)
(* letter case, is not accepted by is_csv_data_line and yields no data     *)
(* row, also when it has 15..25 parts of which at least 80% are numeric.   *)
(***************************************************************************)
C5_KeywordNeverData ==
    (fn_stage = "done" /\ ContainsKeywordCI(fn_line)) =>
        (~fn_is_data /\ fn_row = None)

\* A keyword line of numeric shape that holds a run of 21 values.
C5_Witness ==
    /\ fn_stage = "done"
    /\ ~fn_is_data
    /\ fn_cleaned # None
    /\ ContainsKeywordCI(fn_line)
    /\ LET parts == PartsOf(fn_line)
       IN  /\ Len(parts) >= MIN_PARTS
           /\ Len(parts) <= MAX_PARTS
           /\ 5 * Cardinality(NumericIn(parts)) >= 4 * Len(parts)

(***************************************************************************)
(* C6: a keyword-free line whose parts are all numeric is accepted by      *)
(* is_csv_data_line exactly when it has 15 to 25 parts, both limits        *)
(* included: 14 and 26 parts are rejected, 15 and 25 accepted.             *)
(***************************************************************************)
C6_WidthBand ==
    fn_stage = "done" =>
        LET parts == PartsOf(fn_line)
        IN  (NumericIn(parts) = 1..Len(parts) /\ KeywordFree(fn_line)) =>
                (fn_is_data <=> (Len(parts) >= 15 /\ Len(parts) <= 25))

\* The upper limit: 25 numeric parts, accepted.
C6_Witness ==
    /\ fn_stage = "done"
    /\ fn_is_data
    /\ LET parts == PartsOf(fn_line)
       IN  Len(parts) = 25 /\ NumericIn(parts) = 1..25 /\ KeywordFree(fn_line)

(***************************************************************************)
(* C7: a keyword-free line with p parts, 15 <= p <= 25, of which n are     *)
(* numeric, is accepted by is_csv_data_line exactly when 5 * n >= 4 * p.   *)
(***************************************************************************)
C7_NumericThreshold ==
    fn_stage = "done" =>
        LET parts == PartsOf(fn_line)
            p == Len(parts)
        IN  (p >= 15 /\ p <= 25 /\ KeywordFree(fn_line)) =>
                (fn_is_data <=> 5 * Cardinality(NumericIn(parts)) >= 4 * p)

\* Exactly 80% of the parts are numeric and the line is accepted.
C7_Witness ==
    /\ fn_stage = "done"
    /\ fn_is_data
    /\ LET parts == PartsOf(fn_line)
           p == Len(parts)
       IN  /\ p >= 15 /\ p <= 25 /\ KeywordFree(fn_line)
           /\ 5 * Cardinality(NumericIn(parts)) = 4 * p

(***************************************************************************)
(* C8: the count a summary reports is the number of records processed in   *)
(* the 15 time units that end with the summary, not records of an earlier  *)
(* window.                                                                 *)
(***************************************************************************)
RecordsInWindow(s) ==
    {i \in 1..s.rows : IsDataRow(file[i]) /\ RowTime(file[i]) >= s.time - SUMMARY_INTERVAL}

C8_SummaryCountsWindow ==
    \A k \in 1..Len(summaries) :
        summaries[k].count = Cardinality(RecordsInWindow(summaries[k]))

(***************************************************************************)
(* C9: every row written, header row or data row, has been flushed when    *)
(* the loop goes to read the next line.                                    *)
(***************************************************************************)
C9_FlushedBeforeNextLine == pc = "poll" => flushed = Len(file)

(***************************************************************************)
(* C10: the count printed on an operator interrupt that arrives between    *)
(* two lines is the number of data rows written during the session.        *)
(***************************************************************************)
C10_FinalCountIsTotal ==
    (final_count # -1 /\ interrupt_pc = "poll") =>
        final_count = Cardinality(DataRows)

(***************************************************************************)
(* C11: when the loop ends by an operator interrupt or by an exception,    *)
(* the serial port is closed before main() returns, and it is closed only  *)
(* after every data row already extracted has been written and flushed.    *)
(***************************************************************************)
C11_ClosedAfterFlush ==
    /\ pc = "done" => ~ser_open
    /\ ~ser_open => /\ interrupt_pc # "write"
                    /\ \A i \in DataRows : i <= flushed

(***************************************************************************)
(* C14: a poll that finds no data is followed by a sleep before the next   *)
(* poll: two empty polls never follow each other directly.                 *)
(***************************************************************************)
C14_NoBusySpin == spins <= 1

(***************************************************************************)
(* C15: when the processing of a non-empty line of any classification      *)
(* ends and 15 time units or more have passed since last_summary_time, a   *)
(* summary is printed.                                                     *)
(***************************************************************************)
LineDone ==
    \/ (nread' = nread + 1 /\ pc' = "poll" /\ last_line' # <<>>)
    \/ (pc = "count" /\ pc' = "poll")

C15_SummaryAfterEveryLine ==
    [][(LineDone /\ SummaryDue(now, last_summary_time))
          => Len(summaries') = Len(summaries) + 1]_vars

(***************************************************************************)
(* C16: when a line passes is_csv_data_line at line 156 and clean_csv_line *)
(* returns None, no row is written, header_written, csv_message_count and  *)
(* last_summary_time keep their values, and the loop goes on to the next   *)
(* line.                                                                   *)
(***************************************************************************)
\* The loop reaches line 156 with txt and the extraction fails.
ParseFails(txt) ==
    /\ txt # <<>>
    /\ ~contains(MARKER, txt)
    /\ is_csv_data_line(txt)
    /\ clean_csv_line(txt) = None

C16_ParseErrorFrame ==
    [][(nread' = nread + 1 /\ ParseFails(last_line'))
          => /\ file' = file
             /\ pc' = "poll"
             /\ UNCHANGED <<header_written, csv_message_count, last_summary_time,
                            flushed, summaries>>]_vars

\* A parse failure came after a counted record and left the count alone.
C16_Witness ==
    /\ ParseFails(last_line)
    /\ pc = "poll"
    /\ csv_message_count = 1
    /\ Cardinality(DataRows) = 1

(***************************************************************************)
(* C18: a line that holds the marker once its control characters are       *)
(* removed is treated as a header line: the first one writes the header    *)
(* row, a later one is dropped.                                            *)
(***************************************************************************)
C18_HeaderAfterCleaning ==
    [][(nread' = nread + 1 /\ contains(MARKER, re_sub(last_line')))
          => /\ pc' = "poll"
             /\ header_written'
             /\ file' = (IF header_written THEN file ELSE Append(file, HeaderRow))]_vars

(***************************************************************************)
(* C12: the relay loop has ended once the operator entered 'quit' in any   *)
(* letter case, and once a read met the closed input stream; it does not   *)
(* go back to reading input.                                               *)
(***************************************************************************)
C12_RelayTerminates == last_input \in {"quit", "eof"} => cmd_pc = "done"

(***************************************************************************)
(* C13: the step that ends the relay thread changes no ingestion state;    *)
(* after it the ingestion loop is left only by an interrupt or an          *)
(* exception, a line read is still classified by ExtractRecord, and the    *)
(* record of a valid line is still written as a data row.                  *)
(***************************************************************************)
C13_IngestionSurvivesRelay ==
    /\ [][(cmd_pc # "done" /\ cmd_pc' = "done") => UNCHANGED ingestVars]_vars
    /\ [](cmd_pc = "done" /\ interrupt_pc = "none"
            => ser_open /\ pc \in {"poll", "write", "flush", "count"})
    /\ [][(cmd_pc = "done" /\ nread' = nread + 1
              /\ ~contains(MARKER, last_line')
              /\ ExtractRecord(last_line') # None)
            => pc' = "write" /\ cleaned_data' = ExtractRecord(last_line')]_vars
    /\ [][(cmd_pc = "done" /\ pc = "write" /\ pc' = "flush")
            => file' = Append(file, DataRow(now, cleaned_data))]_vars

\* The relay ended before any line was read; a header row and a data row
\* were written and flushed afterwards.
C13_Witness ==
    /\ cmd_pc = "done"
    /\ quit_nread = 0
    /\ HeaderRows # {}
    /\ DataRows # {}
    /\ flushed = Len(file)
    /\ pc = "poll"

(***************************************************************************)
(* C19: when ser.write fails in the relay, the failure is printed, the     *)
(* relay is back at input() with the command consumed, and no ingestion    *)
(* state changes.                                                          *)
(***************************************************************************)
C19_WriteFailureContinues ==
    [][(ncmd' = ncmd + 1 /\ last_write' \in {"failed", "closed"})
          => /\ relay_msg' = "error"
             /\ cmd_pc' = "input"
             /\ UNCHANGED ingestVars]_vars

\* A write failed while the port was open and the relay waits for input
\* again, with the ingestion loop still polling.
C19_Witness ==
    /\ last_write = "failed"
    /\ relay_msg = "error"
    /\ cmd_pc = "input"
    /\ ncmd < MaxCmds
    /\ ser_open
    /\ pc = "poll"

(***************************************************************************)
(* C20: the relay thread never calls ser.write after main() has closed     *)
(* the port.                                                               *)
(***************************************************************************)
C20_NoWriteAfterClose == last_write # "closed"

(***************************************************************************)
(* C17: clean_csv_line returns the 21 parts at offsets i..i+20 for the     *)
(* smallest offset i at which 21 consecutive parts are all numeric, and    *)
(* None exactly when the line has no such offset.                          *)
(***************************************************************************)
\* The 0-based offsets at which N consecutive parts are all numeric.
FullRunStarts(parts) ==
    LET num == NumericIn(parts)
    IN  {i \in 0..(Len(parts) - N) : \A j \in 1..N : (i + j) \in num}

C17_EarliestRun ==
    fn_stage = "done" =>
        LET parts == PartsOf(fn_line)
            starts == FullRunStarts(parts)
        IN  IF starts = {}
            THEN fn_cleaned = None
            ELSE LET first == CHOOSE i \in starts : \A k \in starts : i <= k
                 IN  fn_cleaned = SubSeq(parts, first + 1, first + N)

\* Two separate full runs with a token that is not numeric between them:
\* the earlier run was returned.
C17_Witness ==
    /\ fn_stage = "done"
    /\ LET parts == PartsOf(fn_line)
           starts == FullRunStarts(parts)
       IN  /\ 0 \in starts
           /\ \E i \in starts : i > N /\ (i - 1) \notin starts
           /\ fn_cleaned = SubSeq(parts, 1, N)

====
